---- MODULE Spec2Model ----
(***************************************************************************)
(* Model of homeassistant/components/light/tradfri.py: one entity, either  *)
(* a TradfriLight or a TradfriGroup, its cached vendor resource, and the   *)
(* coroutines async_turn_on / async_turn_off that submit vendor commands   *)
(* through the api executor, interleaved with push notifications, and the  *)
(* observation subscription kept up by _async_start_observe.               *)
(*                                                                         *)
(* Reading of the source.  Line 245 closes one parenthesis more than it    *)
(* opens; it is read with that parenthesis removed, which is the only      *)
(* change that makes the file parse.  Everything else is taken as written: *)
(*  - lines 247-248 have no comma between `xy[1]` and `**params`, so the   *)
(*    second argument is the power expression xy[1] ** params, a float     *)
(*    raised to a dict, which raises TypeError before any command is       *)
(*    built;                                                               *)
(*  - SUPPORT_RGB_COLOR (line 301) is not among the imported names of      *)
(*    lines 12-15, so evaluating it raises NameError.                      *)
(*                                                                         *)
(* Representation.  A Python dict (kwargs, params) is a function whose     *)
(* DOMAIN is its key set.  A duration of t seconds is the integer 10*t     *)
(* (durations with one decimal), so int(t) is t \div 10.                   *)
(***************************************************************************)
EXTENDS Integers, Sequences, FiniteSets, TLC

VARIABLES
    kind,            \* "light" (TradfriLight) or "group" (TradfriGroup)
    _light,          \* TradfriLight._light
    _available,      \* TradfriLight._available
    _light_control,  \* TradfriLight._light_control
    _light_data,     \* TradfriLight._light_data
    _features,       \* TradfriLight._features
    _group,          \* TradfriGroup._group
    _name,           \* ._name of either class
    refreshed,       \* history: the resource passed to the latest _refresh
    method,          \* the coroutine of the current or last call
    kwargs,          \* its keyword arguments
    params,          \* its local dict params / keys
    pc,              \* the statement whose submission it awaits
    inflight,        \* commands handed to self._api and not yet completed
    emitted,         \* history: commands submitted by the call, in order
    outcome,         \* how the call ended
    failedAt,        \* history: index in emitted of the failed submission
    interleaved,     \* history: a notification was handled during the call
    jobs,            \* observe commands given to hass.async_add_job, not yet run
    subs,            \* live subscriptions calling _observe_update
    attempts,        \* history: calls of observe(...) in _async_start_observe
    raises,          \* history: of these, how many raised PytradfriError
    errbacks,        \* history: calls of err_callback by the vendor library
    event            \* history: what the latest hub event of the live
                     \* subscription caused

vars == <<kind, _light, _available, _light_control, _light_data, _features,
          _group, _name, refreshed, method, kwargs, params, pc, inflight,
          emitted, outcome, failedAt, interleaved, jobs, subs, attempts,
          raises, errbacks, event>>

adapterVars == <<kind, _light, _available, _light_control, _light_data,
                 _features, _group, _name, refreshed>>

callVars == <<method, kwargs, params, pc, inflight, emitted, outcome, failedAt,
              interleaved>>

observeVars == <<jobs, subs, attempts, raises, errbacks>>

-----------------------------------------------------------------------------
(* Bounds and input domains *)

MaxTransition == 2

\* subscription failures explored in one behaviour
MaxFailures == 2

\* durations 0, 0.5, 1, 1.5, ... MaxTransition seconds, held as tenths
TransitionVals == {5 * k : k \in 0 .. (2 * MaxTransition)}

BrightnessVals == {0, 100, 254, 255}

XYVals == {<<3, 7>>}

RGBVals == {<<255, 0, 0>>}

ColorTempVals == {300}

\* an attribute a class does not have
Absent == "absent"

\* the empty dict
Empty == [k \in {} |-> 0]

Has(d, k) == k \in DOMAIN d

Merge(d1, d2) ==
    [k \in (DOMAIN d1) \cup (DOMAIN d2) |-> IF k \in DOMAIN d1 THEN d1[k] ELSE d2[k]]

Opt(k, vals) == {Empty} \cup {[x \in {k} |-> v] : v \in vals}

ATTR_BRIGHTNESS == "brightness"

ATTR_COLOR_TEMP == "color_temp"

ATTR_XY_COLOR == "xy_color"

ATTR_RGB_COLOR == "rgb_color"

ATTR_TRANSITION == "transition"

ATTR_TRANSITION_TIME == "transition_time"

\* every **kwargs a service call can pass
Requests ==
    {Merge(b, Merge(x, Merge(r, Merge(c, t)))) :
        b \in Opt(ATTR_BRIGHTNESS, BrightnessVals),
        x \in Opt(ATTR_XY_COLOR, XYVals),
        r \in Opt(ATTR_RGB_COLOR, RGBVals),
        c \in Opt(ATTR_COLOR_TEMP, ColorTempVals),
        t \in Opt(ATTR_TRANSITION, TransitionVals)}

\* the **kwargs of a turn_off service call: the code reads none of them
OffRequests == Opt(ATTR_TRANSITION, TransitionVals)

-----------------------------------------------------------------------------
(* Vendor resources *)

LightRes(n, reach, csm, csc, lo, hi, st, dim, ct, xy) ==
    [name |-> n, reachable |-> reach,
     light_control |->
        [can_set_mireds |-> csm, can_set_color |-> csc,
         min_mireds |-> lo, max_mireds |-> hi,
         lights |-> <<[state |-> st, dimmer |-> dim, color_temp |-> ct,
                       xy_color |-> xy]>>]]

LightResources ==
    {LightRes("desk", TRUE, FALSE, FALSE, 0, 0, FALSE, 0, 0, <<0, 0>>),
     LightRes("desk", TRUE, TRUE, FALSE, 250, 454, TRUE, 254, 370, <<0, 0>>),
     LightRes("hall", FALSE, TRUE, FALSE, 153, 500, TRUE, 100, 250, <<1, 1>>),
     LightRes("hall", TRUE, TRUE, TRUE, 250, 454, FALSE, 100, 370, <<3, 7>>),
     LightRes("desk", FALSE, FALSE, TRUE, 0, 0, TRUE, 254, 0, <<7, 3>>)}

GroupResources ==
    {[name |-> n, state |-> s, dimmer |-> d] :
        n \in {"upstairs", "kitchen"}, s \in BOOLEAN, d \in {0, 254}}

-----------------------------------------------------------------------------
(* Capability flags *)

SUPPORT_BRIGHTNESS == "SUPPORT_BRIGHTNESS"

SUPPORT_TRANSITION == "SUPPORT_TRANSITION"

SUPPORT_COLOR_TEMP == "SUPPORT_COLOR_TEMP"

SUPPORT_XY_COLOR == "SUPPORT_XY_COLOR"

SUPPORT_RGB_COLOR == "SUPPORT_RGB_COLOR"

\* a bitmask is the set of its bits, | is \cup
SUPPORTED_FEATURES == {SUPPORT_BRIGHTNESS, SUPPORT_TRANSITION}

-----------------------------------------------------------------------------
(* _refresh *)

\* LightRefresh without line 291: _available keeps the True of line 160
LightRefresh_AvailableDefault(light) ==
    LET f0 == SUPPORTED_FEATURES
        f1 == IF light.light_control.can_set_mireds
              THEN f0 \cup {SUPPORT_COLOR_TEMP} ELSE f0
        f2 == IF light.light_control.can_set_color
              THEN f1 \cup {SUPPORT_XY_COLOR} ELSE f1
    IN  [_light |-> light,
         _available |-> TRUE,
         _light_control |-> light.light_control,
         _light_data |-> light.light_control.lights[1],
         _name |-> light.name,
         _features |-> f2,
         raised |-> light.light_control.can_set_color]

\* LightRefresh testing light.reachable where line 297 tests can_set_mireds
LightRefresh_FlagsFromReachable(light) ==
    LET f0 == SUPPORTED_FEATURES
        f1 == IF light.reachable
              THEN f0 \cup {SUPPORT_COLOR_TEMP} ELSE f0
        f2 == IF light.light_control.can_set_color
              THEN f1 \cup {SUPPORT_XY_COLOR} ELSE f1
    IN  [_light |-> light,
         _available |-> light.reachable,
         _light_control |-> light.light_control,
         _light_data |-> light.light_control.lights[1],
         _name |-> light.name,
         _features |-> f2,
         raised |-> light.light_control.can_set_color]

\* TradfriLight._refresh: the attribute values after the call, and whether
\* it raised.  The assignments of lines 288-300 are done when line 301
\* raises NameError, so they stay.
LightRefresh(light) ==
    LET f0 == SUPPORTED_FEATURES
        f1 == IF light.light_control.can_set_mireds
              THEN f0 \cup {SUPPORT_COLOR_TEMP} ELSE f0
        f2 == IF light.light_control.can_set_color
              THEN f1 \cup {SUPPORT_XY_COLOR} ELSE f1
    IN  [_light |-> light,
         _available |-> light.reachable,
         _light_control |-> light.light_control,
         _light_data |-> light.light_control.lights[1],
         _name |-> light.name,
         _features |-> f2,
         raised |-> light.light_control.can_set_color]

\* TradfriGroup._refresh
GroupRefresh(group) == [_group |-> group, _name |-> group.name]

-----------------------------------------------------------------------------
(* Read accessors *)

name == _name

available == _available

supported_features == IF kind = "light" THEN _features ELSE SUPPORTED_FEATURES

is_on == IF kind = "light" THEN _light_data.state ELSE _group.state

brightness == IF kind = "light" THEN _light_data.dimmer ELSE _group.dimmer

color_temp == _light_data.color_temp

xy_color == _light_data.xy_color

min_mireds == _light_control.min_mireds

max_mireds == _light_control.max_mireds

-----------------------------------------------------------------------------
(* Vendor commands *)

\* SetXYColor with the coordinates swapped
SetXYColor_Swapped(x, y, p) ==
    [target |-> "light_control", op |-> "set_xy_color", args |-> <<y, x>>, kw |-> p]

SetXYColor(x, y, p) ==
    [target |-> "light_control", op |-> "set_xy_color", args |-> <<x, y>>, kw |-> p]

SetColorTemp(ct, p) ==
    [target |-> "light_control", op |-> "set_color_temp", args |-> <<ct>>, kw |-> p]

SetDimmer(b, p) ==
    [target |-> "light_control", op |-> "set_dimmer", args |-> <<b>>, kw |-> p]

SetState(s) ==
    [target |-> "light_control", op |-> "set_state", args |-> <<s>>, kw |-> Empty]

GroupSetDimmer(b, keys) ==
    [target |-> "group", op |-> "set_dimmer", args |-> <<b>>, kw |-> keys]

GroupSetState(s) ==
    [target |-> "group", op |-> "set_state", args |-> <<s>>, kw |-> Empty]

-----------------------------------------------------------------------------
(* async_turn_on / async_turn_off *)

\* int(kwargs[ATTR_TRANSITION]): truncation to whole seconds
IntOf(t) == t \div 10

\* TransitionParams converting before truncating: int(t * 10)
TransitionParams_NoTruncation(kw) ==
    IF Has(kw, ATTR_TRANSITION)
    THEN [k \in {ATTR_TRANSITION_TIME} |-> kw[ATTR_TRANSITION]]
    ELSE Empty

\* the dict built by lines 227-229 (light) and 106-108 (group)
TransitionParams(kw) ==
    IF Has(kw, ATTR_TRANSITION)
    THEN [k \in {ATTR_TRANSITION_TIME} |-> IntOf(kw[ATTR_TRANSITION]) * 10]
    ELSE Empty

\* PopTransition that never pops
PopTransition_Never(kw, p) == p

\* if brightness is not None: params.pop(ATTR_TRANSITION_TIME, None)
PopTransition(kw, p) ==
    IF Has(kw, ATTR_BRIGHTNESS)
    THEN [k \in (DOMAIN p) \ {ATTR_TRANSITION_TIME} |-> p[k]]
    ELSE p

\* ClampBrightness without the normalisation of 255
ClampBrightness_None(b) == b

\* if brightness == 255: brightness = 254
ClampBrightness(b) == IF b = 255 THEN 254 ELSE b

\* FinalCommand whose else branch switches the light off
FinalCommand_Off(kw, p) ==
    IF Has(kw, ATTR_BRIGHTNESS)
    THEN SetDimmer(ClampBrightness(kw[ATTR_BRIGHTNESS]), p)
    ELSE SetState(FALSE)

\* FinalCommand dimming to the cached brightness when none is requested
FinalCommand_CachedBrightness(kw, p) ==
    IF Has(kw, ATTR_BRIGHTNESS)
    THEN SetDimmer(ClampBrightness(kw[ATTR_BRIGHTNESS]), p)
    ELSE IF _light_data.dimmer > 0
         THEN SetDimmer(_light_data.dimmer, p)
         ELSE SetState(TRUE)

\* lines 257-266
FinalCommand(kw, p) ==
    IF Has(kw, ATTR_BRIGHTNESS)
    THEN SetDimmer(ClampBrightness(kw[ATTR_BRIGHTNESS]), p)
    ELSE SetState(TRUE)

\* StageOrder with the colour temperature statement first
StageOrder_CtFirst == <<"ct", "xy", "rgb", "final">>

\* the order of the if-statements of TradfriLight.async_turn_on
StageOrder == <<"xy", "rgb", "ct", "final">>

IndexOf(stage) == CHOOSE i \in 1 .. Len(StageOrder) : StageOrder[i] = stage

\* the coroutine suspended in `yield from self._api(cmd)` at statement s
Suspend(s, p, cmd) ==
    [pc |-> s, params |-> p, cmd |-> <<cmd>>, outcome |-> "none"]

\* the coroutine ended with the given outcome
Finish(p, how) ==
    [pc |-> "done", params |-> p, cmd |-> <<>>, outcome |-> how]

\* TradfriLight.async_turn_on run from the i-th if-statement up to its next
\* submission, its return or an exception
RECURSIVE RunTurnOn(_, _, _)
RunTurnOn(i, kw, p) ==
    IF i > Len(StageOrder) THEN Finish(p, "returned")
    ELSE LET s == StageOrder[i] IN
         CASE s = "xy" ->
                IF Has(kw, ATTR_XY_COLOR)
                THEN LET q == PopTransition(kw, p)
                     IN  Suspend(s, q, SetXYColor(kw[ATTR_XY_COLOR][1],
                                                  kw[ATTR_XY_COLOR][2], q))
                ELSE RunTurnOn(i + 1, kw, p)
           [] s = "rgb" ->
                IF Has(kw, ATTR_RGB_COLOR)
                THEN Finish(PopTransition(kw, p), "TypeError")
                ELSE RunTurnOn(i + 1, kw, p)
           [] s = "ct" ->
                IF Has(kw, ATTR_COLOR_TEMP)
                THEN LET q == PopTransition(kw, p)
                     IN  Suspend(s, q, SetColorTemp(kw[ATTR_COLOR_TEMP], q))
                ELSE RunTurnOn(i + 1, kw, p)
           [] s = "final" -> Suspend(s, p, FinalCommand(kw, p))

\* TradfriGroup.async_turn_on up to its submission
GroupRunTurnOn(kw) ==
    LET keys == TransitionParams(kw)
    IN  IF Has(kw, ATTR_BRIGHTNESS)
        THEN Suspend("final", keys,
                     GroupSetDimmer(ClampBrightness(kw[ATTR_BRIGHTNESS]), keys))
        ELSE Suspend("final", keys, GroupSetState(1))

\* the coroutine resumed after the submission it awaited returned
Resume(k, m, s, kw, p) ==
    IF k = "light" /\ m = "turn_on"
    THEN RunTurnOn(IndexOf(s) + 1, kw, p)
    ELSE Finish(p, "returned")

\* OnApiError with a retry: the failed command is submitted again
OnApiError_Retry(k, m, s, kw, p) == Suspend(s, p, inflight[1])

\* OnApiError with the exception swallowed: the coroutine goes on
OnApiError_Swallow(k, m, s, kw, p) == Resume(k, m, s, kw, p)

\* the submission it awaited raised: no try/except, the exception leaves the
\* coroutine
OnApiError(k, m, s, kw, p) == Finish(p, "api_error")

-----------------------------------------------------------------------------
(* _async_start_observe / _observe_update *)

\* no hub event yet
NoEvent == [handled |-> 0, scheduled |-> 0]

\* StartObserve without the retry of lines 282-284: a raise ends the attempt
RECURSIVE StartObserve_NoRetry(_, _, _)
StartObserve_NoRetry(exc, k, a) ==
    IF k > 0
    THEN [a EXCEPT !.attempts = @ + 1, !.raises = @ + 1]
    ELSE [a EXCEPT !.attempts = @ + 1, !.jobs = @ + 1]

\* StartObserve returning after the warning of lines 273-275
RECURSIVE StartObserve_LogOnly(_, _, _)
StartObserve_LogOnly(exc, k, a) ==
    IF exc THEN a
    ELSE IF k > 0
         THEN StartObserve_LogOnly(FALSE, k - 1,
                                   [a EXCEPT !.attempts = @ + 1, !.raises = @ + 1])
         ELSE [a EXCEPT !.attempts = @ + 1, !.jobs = @ + 1]

\* _async_start_observe(exc) when the next k calls of observe(...) raise
\* PytradfriError: the counters a after the call.  exc only decides the
\* warning of lines 273-275; each raise is answered by the recursive call of
\* line 284, the attempt that does not raise hands its command to
\* hass.async_add_job.
RECURSIVE StartObserve(_, _, _)
StartObserve(exc, k, a) ==
    IF k > 0
    THEN StartObserve(FALSE, k - 1,
                      [a EXCEPT !.attempts = @ + 1, !.raises = @ + 1])
    ELSE [a EXCEPT !.attempts = @ + 1, !.jobs = @ + 1]

\* re-publish requests of one _observe_update: line 307 is reached only when
\* _refresh returns
Scheduled(raised) == IF raised THEN 0 ELSE 1

-----------------------------------------------------------------------------
(* The state machine *)

\* __init__ returned: for a light whose control can set colour _refresh
\* raises NameError and no entity exists
Init ==
    /\ kind \in {"light", "group"}
    /\ IF kind = "light"
       THEN \E light \in LightResources :
              LET r == LightRefresh(light) IN
              /\ ~r.raised
              /\ _light = r._light
              /\ _available = r._available
              /\ _light_control = r._light_control
              /\ _light_data = r._light_data
              /\ _name = r._name
              /\ _features = r._features
              /\ _group = Absent
              /\ refreshed = light
       ELSE \E group \in GroupResources :
              LET r == GroupRefresh(group) IN
              /\ _group = r._group
              /\ _name = r._name
              /\ _light = Absent
              /\ _available = Absent
              /\ _light_control = Absent
              /\ _light_data = Absent
              /\ _features = Absent
              /\ refreshed = group
    /\ method = "none"
    /\ kwargs = Empty
    /\ params = Empty
    /\ pc = "idle"
    /\ inflight = <<>>
    /\ emitted = <<>>
    /\ outcome = "none"
    /\ failedAt = 0
    /\ interleaved = FALSE
    /\ jobs = 0
    /\ subs = 0
    /\ attempts = 0
    /\ raises = 0
    /\ errbacks = 0
    /\ event = NoEvent

\* the host serializes calls against one entity
Callable == pc = "idle"

\* Start writing the requested power state into the cached data
Start_Optimistic(m, kw, r) ==
    /\ method' = m
    /\ kwargs' = kw
    /\ params' = r.params
    /\ pc' = r.pc
    /\ inflight' = r.cmd
    /\ emitted' = r.cmd
    /\ outcome' = r.outcome
    /\ failedAt' = 0
    /\ interleaved' = FALSE
    /\ IF kind = "light"
       THEN /\ _light_data' = [_light_data EXCEPT !.state = (m = "turn_on")]
            /\ UNCHANGED _group
       ELSE /\ _group' = [_group EXCEPT !.state = (m = "turn_on")]
            /\ UNCHANGED _light_data
    /\ UNCHANGED <<kind, _light, _available, _light_control, _features, _name,
                   refreshed>>
    /\ UNCHANGED <<observeVars, event>>

\* a call runs up to its first suspension: nothing but the frame changes
Start(m, kw, r) ==
    /\ method' = m
    /\ kwargs' = kw
    /\ params' = r.params
    /\ pc' = r.pc
    /\ inflight' = r.cmd
    /\ emitted' = r.cmd
    /\ outcome' = r.outcome
    /\ failedAt' = 0
    /\ interleaved' = FALSE
    /\ UNCHANGED adapterVars
    /\ UNCHANGED <<observeVars, event>>

\* TradfriLight.async_turn_on(**kw) up to its first suspension
LightTurnOn(kw) ==
    /\ kind = "light"
    /\ Callable
    /\ Start("turn_on", kw, RunTurnOn(1, kw, TransitionParams(kw)))

\* TradfriLight.async_turn_off(**kw)
LightTurnOff(kw) ==
    /\ kind = "light"
    /\ Callable
    /\ Start("turn_off", kw, Suspend("off", Empty, SetState(FALSE)))

\* TradfriGroup.async_turn_on(**kw)
GroupTurnOn(kw) ==
    /\ kind = "group"
    /\ Callable
    /\ Start("turn_on", kw, GroupRunTurnOn(kw))

\* TradfriGroup.async_turn_off(**kw)
GroupTurnOff(kw) ==
    /\ kind = "group"
    /\ Callable
    /\ Start("turn_off", kw, Suspend("off", Empty, GroupSetState(0)))

Continue(r) ==
    /\ params' = r.params
    /\ pc' = r.pc
    /\ inflight' = Tail(inflight) \o r.cmd
    /\ emitted' = emitted \o r.cmd
    /\ outcome' = r.outcome
    /\ UNCHANGED <<method, kwargs, interleaved>>
    /\ UNCHANGED adapterVars
    /\ UNCHANGED <<observeVars, event>>

\* self._api(cmd) completes: `yield from` resumes the coroutine
ApiReturn ==
    /\ inflight # <<>>
    /\ Continue(Resume(kind, method, pc, kwargs, params))
    /\ UNCHANGED failedAt

\* self._api(cmd) raises
ApiRaise ==
    /\ inflight # <<>>
    /\ Continue(OnApiError(kind, method, pc, kwargs, params))
    /\ failedAt' = Len(emitted)

\* the ghost record of a hub event handled by every live subscription
Handled(raised) ==
    /\ event' = [handled |-> subs, scheduled |-> subs * Scheduled(raised)]
    /\ interleaved' = (interleaved \/ inflight # <<>>)
    /\ UNCHANGED <<method, kwargs, params, pc, inflight, emitted, outcome, failedAt>>
    /\ UNCHANGED observeVars

\* a hub event reaches TradfriLight._observe_update(tradfri_device)
LightObserveUpdate(light) ==
    /\ kind = "light"
    /\ subs > 0
    /\ LET r == LightRefresh(light) IN
       /\ _light' = r._light
       /\ _available' = r._available
       /\ _light_control' = r._light_control
       /\ _light_data' = r._light_data
       /\ _name' = r._name
       /\ _features' = r._features
       /\ Handled(r.raised)
    /\ refreshed' = light
    /\ UNCHANGED <<kind, _group>>

\* a hub event reaches TradfriGroup._observe_update(tradfri_device)
GroupObserveUpdate(group) ==
    /\ kind = "group"
    /\ subs > 0
    /\ LET r == GroupRefresh(group) IN
       /\ _group' = r._group
       /\ _name' = r._name
    /\ Handled(FALSE)
    /\ refreshed' = group
    /\ UNCHANGED <<kind, _light, _available, _light_control, _light_data, _features>>

\* the host takes the result of the finished coroutine
CallDone ==
    /\ pc = "done"
    /\ method' = "none"
    /\ kwargs' = Empty
    /\ params' = Empty
    /\ pc' = "idle"
    /\ inflight' = <<>>
    /\ emitted' = <<>>
    /\ outcome' = "none"
    /\ failedAt' = 0
    /\ interleaved' = FALSE
    /\ UNCHANGED adapterVars
    /\ UNCHANGED <<observeVars, event>>

Counters == [attempts |-> attempts, raises |-> raises, jobs |-> jobs]

Observe(a) ==
    /\ attempts' = a.attempts
    /\ raises' = a.raises
    /\ jobs' = a.jobs
    /\ UNCHANGED adapterVars
    /\ UNCHANGED callVars
    /\ UNCHANGED event

\* async_added_to_hass: the first _async_start_observe()
AddedToHass(k) ==
    /\ attempts = 0
    /\ raises + errbacks + k <= MaxFailures
    /\ Observe(StartObserve(FALSE, k, Counters))
    /\ UNCHANGED <<subs, errbacks>>

\* the job of hass.async_add_job runs self._api(cmd): the subscription stands
ObserveEstablished ==
    /\ jobs > 0
    /\ jobs' = jobs - 1
    /\ subs' = subs + 1
    /\ event' = NoEvent
    /\ UNCHANGED <<attempts, raises, errbacks>>
    /\ UNCHANGED adapterVars
    /\ UNCHANGED callVars

\* the vendor library ends an observation, pending or live, with
\* err_callback(exc), which is _async_start_observe(exc)
ObserveError(k) ==
    /\ jobs + subs > 0
    /\ raises + errbacks + 1 + k <= MaxFailures
    /\ errbacks' = errbacks + 1
    /\ subs' = IF subs > 0 THEN subs - 1 ELSE subs
    /\ Observe(StartObserve(TRUE, k,
                            [Counters EXCEPT !.jobs = IF subs > 0 THEN @ ELSE @ - 1]))

Next ==
    \/ \E kw \in Requests : LightTurnOn(kw)
    \/ \E kw \in OffRequests : LightTurnOff(kw)
    \/ \E kw \in Requests : GroupTurnOn(kw)
    \/ \E kw \in OffRequests : GroupTurnOff(kw)
    \/ ApiReturn
    \/ ApiRaise
    \/ \E light \in LightResources : LightObserveUpdate(light)
    \/ \E group \in GroupResources : GroupObserveUpdate(group)
    \/ CallDone
    \/ AddedToHass(0)
    \/ ObserveEstablished

\* the entity under every service call, its observation never failing
Spec == Init /\ [][Next]_vars

\* a failed multi-command call, a single-command call, a bare call
FewRequests ==
    {Empty,
     [k \in {ATTR_BRIGHTNESS, ATTR_TRANSITION} |->
        IF k = ATTR_BRIGHTNESS THEN 255 ELSE 15],
     Merge([k \in {ATTR_XY_COLOR} |-> <<3, 7>>],
           [k \in {ATTR_COLOR_TEMP, ATTR_TRANSITION} |->
              IF k = ATTR_COLOR_TEMP THEN 300 ELSE 15])}

NextObserve ==
    \/ \E kw \in FewRequests : LightTurnOn(kw)
    \/ LightTurnOff(Empty)
    \/ \E kw \in FewRequests : GroupTurnOn(kw)
    \/ GroupTurnOff(Empty)
    \/ ApiReturn
    \/ ApiRaise
    \/ \E light \in LightResources : LightObserveUpdate(light)
    \/ \E group \in GroupResources : GroupObserveUpdate(group)
    \/ CallDone
    \/ \E k \in 0 .. MaxFailures : AddedToHass(k)
    \/ ObserveEstablished
    \/ \E k \in 0 .. MaxFailures : ObserveError(k)

\* the entity under a few service calls, its observation failing up to
\* MaxFailures times
SpecObserve == Init /\ [][NextObserve]_vars

\* the job given to hass.async_add_job is run by the event loop
FairObserve == SpecObserve /\ WF_vars(ObserveEstablished)

-----------------------------------------------------------------------------
(* Vocabulary of the properties *)

LightOn == kind = "light" /\ method = "turn_on"

Returned == pc = "done" /\ outcome = "returned"

\* the recognised attributes of the request, the transition aside
Attrs == (DOMAIN kwargs) \ {ATTR_TRANSITION}

Count(op) == Cardinality({i \in DOMAIN emitted : emitted[i].op = op})

NormalisedBrightness == IF kwargs[ATTR_BRIGHTNESS] = 255 THEN 254 ELSE kwargs[ATTR_BRIGHTNESS]

ColourOps == {"set_xy_color", "set_color_temp"}

\* the commands a call submits when every submission returns
RECURSIVE ExpandFrom(_, _, _)
ExpandFrom(i, kw, p) ==
    LET r == RunTurnOn(i, kw, p)
    IN  IF r.cmd = <<>> THEN <<>>
        ELSE r.cmd \o ExpandFrom(IndexOf(r.pc) + 1, kw, r.params)

Expansion(kw) == ExpandFrom(1, kw, TransitionParams(kw))

-----------------------------------------------------------------------------
(* C1 *)

C1_Pre == LightOn /\ Returned /\ Attrs = {ATTR_XY_COLOR}

\* C1 as stated: a turn_on whose only attribute is an xy colour submits
\* exactly one set-colour command with that pair, no set-brightness command
\* and no set-power command.
C1_AsStated ==
    C1_Pre =>
        /\ Count("set_xy_color") = 1
        /\ \A i \in DOMAIN emitted :
              emitted[i].op = "set_xy_color" => emitted[i].args = kwargs[ATTR_XY_COLOR]
        /\ Count("set_dimmer") = 0
        /\ Count("set_state") = 0

\* C1 amended: a turn_on whose only attribute is an xy colour submits exactly
\* two commands: the set-colour command with that pair and then set power = on;
\* it submits no set-brightness command.
C1_XYThenPowerOn ==
    C1_Pre =>
        /\ Len(emitted) = 2
        /\ emitted[1].op = "set_xy_color"
        /\ emitted[1].args = kwargs[ATTR_XY_COLOR]
        /\ emitted[2].op = "set_state"
        /\ emitted[2].args = <<TRUE>>
        /\ Count("set_dimmer") = 0

C1_Witness == C1_Pre /\ Has(kwargs, ATTR_TRANSITION)

-----------------------------------------------------------------------------
(* C2 *)

\* C2 as stated, its closing clause: in a turn_on that has a transition t,
\* a brightness and a colour or colour temperature, the set-brightness command
\* carries transition time 10*t.
C2_AsStated ==
    (/\ LightOn
     /\ Has(kwargs, ATTR_TRANSITION)
     /\ Has(kwargs, ATTR_BRIGHTNESS)
     /\ Attrs \cap {ATTR_XY_COLOR, ATTR_RGB_COLOR, ATTR_COLOR_TEMP} # {})
    => \A i \in DOMAIN emitted :
          emitted[i].op = "set_dimmer" =>
              /\ Has(emitted[i].kw, ATTR_TRANSITION_TIME)
              /\ emitted[i].kw[ATTR_TRANSITION_TIME] = kwargs[ATTR_TRANSITION]

-----------------------------------------------------------------------------
(* C3 *)

\* C3 as stated: when a submission of a multi-command turn_on has failed, the
\* call still submits every later command of its expansion.
C3_AsStated ==
    (LightOn /\ pc = "done" /\ failedAt # 0) => emitted = Expansion(kwargs)

\* C3 amended: a failed submission ends the call with that error; the commands
\* submitted are those of the expansion up to and including the failed one,
\* and none after it.
C3_FailureEndsCall ==
    (LightOn /\ failedAt # 0) =>
        /\ pc = "done"
        /\ outcome = "api_error"
        /\ inflight = <<>>
        /\ Len(emitted) = failedAt
        /\ failedAt <= Len(Expansion(kwargs))
        /\ emitted = SubSeq(Expansion(kwargs), 1, failedAt)

C3_Witness == LightOn /\ failedAt # 0 /\ failedAt + 1 < Len(Expansion(kwargs))

-----------------------------------------------------------------------------
(* C4 *)

C4_Pre == LightOn /\ Attrs = {ATTR_BRIGHTNESS}

\* C4: a turn_on with a brightness b and no colour or colour temperature
\* submits exactly one command, set brightness with value b for 0 <= b <= 254
\* and 254 for b = 255, and never a set-power command.
C4_BrightnessOnly ==
    C4_Pre =>
        /\ Count("set_state") = 0
        /\ Len(emitted) <= 1
        /\ Returned =>
              /\ Len(emitted) = 1
              /\ emitted[1].op = "set_dimmer"
              /\ emitted[1].args = <<NormalisedBrightness>>
              /\ emitted[1].args[1] \in 0 .. 254

C4_Witness == C4_Pre /\ Returned /\ kwargs[ATTR_BRIGHTNESS] = 255

-----------------------------------------------------------------------------
(* C5 *)

C5_Pre == LightOn /\ Returned /\ Attrs = {}

\* C5: a turn_on without brightness, xy colour, rgb colour and colour
\* temperature submits exactly one command, set power = on; turn_off submits
\* exactly one command, set power = off, whatever the cached state.
C5_BarePower ==
    /\ C5_Pre =>
          /\ Len(emitted) = 1
          /\ emitted[1].op = "set_state"
          /\ emitted[1].args = <<TRUE>>
    /\ (kind = "light" /\ method = "turn_off") =>
          /\ Len(emitted) = 1
          /\ emitted[1].op = "set_state"
          /\ emitted[1].args = <<FALSE>>

C5_Witness == C5_Pre /\ is_on

-----------------------------------------------------------------------------
(* C6 *)

C6_Pre == LightOn /\ Has(kwargs, ATTR_TRANSITION) /\ Has(kwargs, ATTR_COLOR_TEMP)

-----------------------------------------------------------------------------
(* C7 *)

\* the place of a command in the order xy, rgb, colour temperature,
\* brightness-or-power
Rank(c) ==
    CASE c.op = "set_xy_color" -> 1
      [] c.op = "set_color_temp" -> 3
      [] c.op \in {"set_dimmer", "set_state"} -> 4

\* C7: at most one command of a call is in flight and it is the one submitted
\* last, so a command is submitted only after the previous submission has
\* completed; the commands of a turn_on are submitted in the order colour,
\* colour temperature, brightness-or-power.
C7_Sequential ==
    /\ Len(inflight) <= 1
    /\ inflight # <<>> => (emitted # <<>> /\ inflight[1] = emitted[Len(emitted)])
    /\ LightOn =>
          \A i, j \in DOMAIN emitted : i < j => Rank(emitted[i]) < Rank(emitted[j])

C7_Witness == LightOn /\ Returned /\ Len(emitted) = 3

-----------------------------------------------------------------------------
(* C8 *)

C8_Shape ==
    /\ Len(emitted) = 1
    /\ emitted[1].target = "group"
    /\ emitted[1].op \notin ColourOps
    /\ method = "turn_off" =>
          (emitted[1].op = "set_state" /\ emitted[1].args = <<0>>)
    /\ (method = "turn_on" /\ ~Has(kwargs, ATTR_BRIGHTNESS)) =>
          (emitted[1].op = "set_state" /\ emitted[1].args = <<1>>)
    /\ (method = "turn_on" /\ Has(kwargs, ATTR_BRIGHTNESS)) =>
          (emitted[1].op = "set_dimmer" /\ emitted[1].args = <<NormalisedBrightness>>)

C8_Dimming ==
    kind = "group" /\ method = "turn_on" /\ Has(kwargs, ATTR_BRIGHTNESS)
        /\ Has(kwargs, ATTR_TRANSITION)

\* C8 as stated: a group call submits exactly one command, set group state
\* off / on or set group brightness (255 sent as 254), never a colour command,
\* and the brightness command of a call with transition t carries transition
\* time 10*t.
C8_AsStated ==
    (kind = "group" /\ method # "none") =>
        /\ C8_Shape
        /\ C8_Dimming =>
              /\ Has(emitted[1].kw, ATTR_TRANSITION_TIME)
              /\ emitted[1].kw[ATTR_TRANSITION_TIME] = kwargs[ATTR_TRANSITION]

\* C8 amended: as stated, except that the transition time carried is ten
\* times the whole seconds of t (1.5 s gives 10, not 15).
C8_GroupOneCommand ==
    (kind = "group" /\ method # "none") =>
        /\ C8_Shape
        /\ C8_Dimming =>
              /\ Has(emitted[1].kw, ATTR_TRANSITION_TIME)
              /\ emitted[1].kw[ATTR_TRANSITION_TIME]
                    = 10 * (kwargs[ATTR_TRANSITION] \div 10)
        /\ (method = "turn_on" /\ ~Has(kwargs, ATTR_TRANSITION)) =>
              emitted[1].kw = Empty

C8_Witness ==
    C8_Dimming /\ Returned /\ kwargs[ATTR_BRIGHTNESS] = 255
        /\ kwargs[ATTR_TRANSITION] = 15 /\ Has(kwargs, ATTR_XY_COLOR)

-----------------------------------------------------------------------------
(* C9 *)

\* C9: every read accessor equals the corresponding field of the resource
\* passed to the latest refresh.
C9_AccessorsFresh ==
    /\ kind = "light" =>
          /\ name = refreshed.name
          /\ available = refreshed.reachable
          /\ is_on = refreshed.light_control.lights[1].state
          /\ brightness = refreshed.light_control.lights[1].dimmer
          /\ color_temp = refreshed.light_control.lights[1].color_temp
          /\ xy_color = refreshed.light_control.lights[1].xy_color
          /\ min_mireds = refreshed.light_control.min_mireds
          /\ max_mireds = refreshed.light_control.max_mireds
    /\ kind = "group" =>
          /\ name = refreshed.name
          /\ is_on = refreshed.state
          /\ brightness = refreshed.dimmer

\* a notification for a colour light has replaced the construction resource
\* and a command sequence has run since
C9_Witness ==
    /\ kind = "light"
    /\ refreshed.light_control.can_set_color
    /\ ~refreshed.reachable
    /\ Returned
    /\ Len(emitted) = 3

-----------------------------------------------------------------------------
(* C10 *)

\* C10 as stated: the capability flags of a light are brightness and
\* transition, plus colorTemp exactly when the current resource can set mireds,
\* plus xyColor and rgbColor exactly when it can set colour.
C10_AsStated ==
    kind = "light" =>
        supported_features =
            SUPPORTED_FEATURES
            \cup (IF refreshed.light_control.can_set_mireds
                  THEN {SUPPORT_COLOR_TEMP} ELSE {})
            \cup (IF refreshed.light_control.can_set_color
                  THEN {SUPPORT_XY_COLOR, SUPPORT_RGB_COLOR} ELSE {})

-----------------------------------------------------------------------------
(* C11 *)

\* the control metadata the flags are computed from
Caps(res) == <<res.light_control.can_set_mireds, res.light_control.can_set_color>>

\* C11 as stated: after construction no operation changes the value of the
\* capability-flags accessor.
C11_AsStated == [][supported_features' = supported_features]_vars

\* C11 amended: the flags of a group never change; the flags of a light are
\* recomputed by every refresh and change exactly when the refreshed
\* resource's control metadata differs from that of the resource before it;
\* turn_on, turn_off and re-subscription never change them.
C11_FlagsFollowMetadata ==
    [][/\ kind = "group" => supported_features' = supported_features
       /\ kind = "light" =>
             ((supported_features' = supported_features)
                <=> (Caps(refreshed') = Caps(refreshed)))]_vars

\* a light re-subscribed after a failure has handled a notification during a
\* call that failed
C11_Witness ==
    /\ kind = "light"
    /\ raises + errbacks > 0
    /\ event.handled > 0
    /\ failedAt # 0
    /\ interleaved

-----------------------------------------------------------------------------
(* C12 *)

\* C12: once observation was started, every failure (an observe call that
\* raised, or an error callback) has been followed by one more observe call,
\* so n failures give n + 1 calls, and a subscription is always either live
\* or being set up by a scheduled job: the adapter never stays unsubscribed.
C12_EveryFailureRetried ==
    attempts > 0 =>
        /\ attempts = raises + errbacks + 1
        /\ jobs + subs = 1

\* subscribed again after both kinds of failure
C12_Witness == raises >= 1 /\ errbacks >= 1 /\ subs = 1

-----------------------------------------------------------------------------
(* C13 *)

Observing == subs = 1 /\ jobs = 0

Reconnecting == subs = 0 /\ jobs = 1

\* C13: from the first observe call on the adapter is in exactly one of
\* Observing and Reconnecting; an error callback received while Observing
\* leaves it Reconnecting, a subscription established while Reconnecting
\* leaves it Observing, no other step changes the state; and, failures being
\* finitely many, Reconnecting always leads to Observing.
C13_TwoStates ==
    /\ [](attempts > 0 => (Observing \/ Reconnecting) /\ ~(Observing /\ Reconnecting))
    /\ [][/\ (Observing /\ errbacks' # errbacks) => Reconnecting'
          /\ (Reconnecting /\ subs' # subs) => Observing'
          /\ (attempts > 0 /\ errbacks' = errbacks /\ subs' = subs)
                => (Observing' <=> Observing)]_vars
    /\ (Reconnecting ~> Observing)

\* Observing again after an error callback
C13_Witness == errbacks > 0 /\ raises = 0 /\ Observing /\ event.handled > 0

-----------------------------------------------------------------------------
(* C14 *)

\* a subscription is live again after at least one failure
Resubscribed == raises + errbacks > 0 /\ subs > 0

\* C14 as stated: a hub event that arrives on the subscription established
\* after a failure is handled exactly once: one _refresh and one request to
\* the host to publish the state.
C14_AsStated ==
    (Resubscribed /\ event.handled > 0) =>
        /\ event.handled = 1
        /\ event.scheduled = 1

-----------------------------------------------------------------------------
(* C16 *)

\* the resource the adapter holds
Snapshot == IF kind = "light" THEN _light ELSE _group

\* C16 as stated: once a notification was handled, the adapter holds the
\* notified resource and the host was asked to publish the state exactly
\* once for it.
C16_AsStated ==
    event.handled > 0 =>
        /\ Snapshot = refreshed
        /\ event.scheduled = event.handled

-----------------------------------------------------------------------------
(* C15 *)

\* C15: a failed submission ends the call with the error as its outcome and
\* with nothing left submitted, the failed command being the last one the
\* call submitted; no call submits a command twice; and the step in which a
\* submission fails makes no observe call and changes no subscription.
C15_FailurePropagated ==
    /\ [](failedAt # 0 =>
            /\ outcome = "api_error"
            /\ pc = "done"
            /\ inflight = <<>>
            /\ failedAt = Len(emitted))
    /\ [](\A i, j \in 1..Len(emitted) : i < j => emitted[i].op # emitted[j].op)
    /\ [][failedAt' # failedAt => UNCHANGED <<observeVars, event>>]_vars

\* a group's turn_off failed while its subscription was live
C15_Witness ==
    /\ kind = "group"
    /\ method = "turn_off"
    /\ failedAt = 1
    /\ Observing

-----------------------------------------------------------------------------
(* C17 *)

\* C17 as stated: a light's turn_on that ended with no failed submission
\* submitted between one and four commands, the last of them set brightness
\* when the request has a brightness and set power = on when it has none.
C17_AsStated ==
    (LightOn /\ pc = "done" /\ failedAt = 0) =>
        /\ Len(emitted) \in 1..4
        /\ emitted[Len(emitted)].op =
              (IF Has(kwargs, ATTR_BRIGHTNESS) THEN "set_dimmer" ELSE "set_state")
        /\ emitted[Len(emitted)].op = "set_state" => emitted[Len(emitted)].args = <<TRUE>>

-----------------------------------------------------------------------------
(* C18 *)

\* everything the read accessors report
Accessors ==
    IF kind = "light"
    THEN <<name, available, supported_features, is_on, brightness, color_temp,
           xy_color, min_mireds, max_mireds>>
    ELSE <<name, supported_features, is_on, brightness>>

\* C18: no step of a turn_on or turn_off call (its start, a submission that
\* returns, a submission that fails, its end) changes the held resource or
\* the value of any read accessor; these change only in the step of a
\* notification with a different resource.
C18_CallsLeaveSnapshot ==
    /\ [][pc' # pc => (Snapshot' = Snapshot /\ Accessors' = Accessors)]_vars
    /\ [][(Snapshot' # Snapshot \/ Accessors' # Accessors)
             => (refreshed' # refreshed /\ emitted' = emitted)]_vars

\* a turn_off has returned, no notification has arrived since the
\* subscription began, and is_on still reports on
C18_Witness ==
    /\ method = "turn_off"
    /\ Returned
    /\ is_on = TRUE
    /\ Observing
    /\ event = NoEvent

-----------------------------------------------------------------------------
(* C19 *)

\* C19: when a notification was handled while a light's turn_on was
\* suspended, the commands the call has submitted so far are still the first
\* commands of the expansion of its request, and all of it once the call has
\* returned.
C19_NotificationLeavesCommands ==
    (LightOn /\ interleaved) =>
        /\ Len(emitted) <= Len(Expansion(kwargs))
        /\ emitted = SubSeq(Expansion(kwargs), 1, Len(emitted))
        /\ Returned => emitted = Expansion(kwargs)

\* a three-command turn_on has returned after a notification that changed
\* the cached brightness arrived between its submissions
C19_Witness ==
    /\ LightOn
    /\ interleaved
    /\ Returned
    /\ Len(emitted) = 3
    /\ ~Has(kwargs, ATTR_BRIGHTNESS)
    /\ event.handled > 0

====
